---- MODULE Spec2Model ----
(***************************************************************************)
(* Letter Boxed solver (src/src/main.rs).                                  *)
(*                                                                         *)
(* A letter is a natural number (its code point): 1..12 stand for 'a'..'l' *)
(* and 24 for 'x'.  A word, a line of the word source and a letter group   *)
(* are sequences of letters; all letters are one byte wide, so a word's    *)
(* byte length is its number of letters.                                   *)
(***************************************************************************)
EXTENDS Naturals, Sequences, FiniteSets

VARIABLES
  pc,                       \* position of the program
  string_groups,            \* argument of new: the four groups as given
  source,                   \* argument of new: the lines of the word source
  pos,                      \* number of lines of source already read
  ignore_words,             \* argument of run_solver
  letter_groups,            \* new: the sorted groups
  available_chars,          \* LetterBoxedSolver.available_chars
  dictionary,               \* LetterBoxedSolver.dictionary
  start_letter_dictionary,  \* LetterBoxedSolver.start_letter_dictionary
  is_letter_box_word,       \* new: result of the last adjacency check
  priority_queue,           \* a_star: the frontier, a binary heap
  visited,                  \* a_star: the visited record, a binary heap
  solutions,                \* a_star: the solutions of the current level
  l,                        \* a_star: the level of the outer loop
  result                    \* what run_solver returned

vars == <<pc, string_groups, source, pos, ignore_words, letter_groups,
          available_chars, dictionary, start_letter_dictionary,
          is_letter_box_word, priority_queue, visited, solutions, l, result>>

(***************************************************************************)
(* Program constants                                                       *)
(***************************************************************************)
GroupLen == 3
BoxLetters == 12
MinWordLen == 3
MaxWordLen == 12
return_after == 4
FirstLevel == 1
LastLevel == 6

(***************************************************************************)
(* Bounds of the model                                                     *)
(***************************************************************************)
MaxLines == 3
MaxCheckLen == 4

(***************************************************************************)
(* Vec and HashSet helpers                                                 *)
(***************************************************************************)
\* Vec::contains
Contains(s, x) == \E i \in 1..Len(s) : s[i] = x

\* collect::<HashSet<char>>() of a word or group
CharSet(w) == {w[i] : i \in 1..Len(w)}

\* collect::<HashSet<char>>() of chain.iter().flat_map(|word| word.chars())
ChainChars(chain) == UNION {CharSet(chain[i]) : i \in 1..Len(chain)}

\* insertion of one char into an ascending Vec<char>, after its equals
RECURSIVE InsertChar(_, _)
InsertChar(s, c) ==
  IF s = <<>> THEN <<c>>
  ELSE IF c < s[1] THEN <<c>> \o s
  ELSE <<s[1]>> \o InsertChar(Tail(s), c)

\* chars.sort()
RECURSIVE SortChars(_)
SortChars(chars) ==
  IF chars = <<>> THEN <<>>
  ELSE InsertChar(SortChars(SubSeq(chars, 1, Len(chars) - 1)), chars[Len(chars)])

\* mutant of InsertByLen: the word goes before the words of its own length
RECURSIVE InsertByLenBeforeEquals(_, _)
InsertByLenBeforeEquals(s, w) ==
  IF s = <<>> THEN <<w>>
  ELSE IF Len(s[1]) <= Len(w) THEN <<w>> \o s
  ELSE <<s[1]>> \o InsertByLenBeforeEquals(Tail(s), w)

\* insertion of one word into a Vec sorted longest first, after the words
\* that are at least as long (the sort is stable)
RECURSIVE InsertByLen(_, _)
InsertByLen(s, w) ==
  IF s = <<>> THEN <<w>>
  ELSE IF Len(s[1]) < Len(w) THEN <<w>> \o s
  ELSE <<s[1]>> \o InsertByLen(Tail(s), w)

\* dictionary.sort_by(|a, b| b.len().cmp(&a.len()))
RECURSIVE SortByLenDesc(_)
SortByLenDesc(d) ==
  IF d = <<>> THEN <<>>
  ELSE InsertByLen(SortByLenDesc(SubSeq(d, 1, Len(d) - 1)), d[Len(d)])

(***************************************************************************)
(* LetterBoxedSolver::is_letter_pattern_in_letter_box                      *)
(***************************************************************************)
\* the for loop over the groups: some group holds both chars[0] and chars[1]
FirstPairInOneGroup(groups, chars) ==
  \E i \in 1..Len(groups) :
     Contains(groups[i], chars[1]) /\ Contains(groups[i], chars[2])

\* mutant of is_letter_pattern_in_letter_box: the recursion stops one pair
\* early
RECURSIVE PatternStopsEarly(_, _)
PatternStopsEarly(groups, word) ==
  IF FirstPairInOneGroup(groups, word) THEN FALSE
  ELSE LET remaining_chars == Tail(word) IN
       IF Len(remaining_chars) <= 2 THEN TRUE
       ELSE PatternStopsEarly(groups, remaining_chars)

RECURSIVE is_letter_pattern_in_letter_box(_, _)
is_letter_pattern_in_letter_box(groups, word) ==
  IF FirstPairInOneGroup(groups, word) THEN FALSE
  ELSE LET remaining_chars == Tail(word) IN
       IF Len(remaining_chars) = 1 THEN TRUE
       ELSE is_letter_pattern_in_letter_box(groups, remaining_chars)

(***************************************************************************)
(* LetterBoxedSolver::new                                                  *)
(***************************************************************************)
\* mutant of BadGroup: only a group that is too short is refused
BadGroupTooShortOnly(groups) ==
  \E i \in 1..Len(groups) : Len(groups[i]) < GroupLen

\* the panic condition of the loop over string_groups
BadGroup(groups) == \E i \in 1..Len(groups) : Len(groups[i]) # GroupLen

no_duplicate_letters(chars) == Cardinality(chars) = BoxLetters

\* mutant of LengthOk: short words are let through
LengthOkNoMin(word) == ~(Len(word) > MaxWordLen)

\* the four filters a line passes before it is pushed
LengthOk(word) == ~(Len(word) > MaxWordLen \/ Len(word) < MinWordLen)

DuplicateOk(chars, word) ==
  ~(no_duplicate_letters(chars) /\ Cardinality(CharSet(word)) # Len(word))

DiffOk(chars, word) == Cardinality(CharSet(word) \ chars) = 0

Accepts(groups, chars, word) ==
  /\ LengthOk(word)
  /\ DuplicateOk(chars, word)
  /\ DiffOk(chars, word)
  /\ is_letter_pattern_in_letter_box(groups, word)

\* mutant of AddStart: the bucket is that of the word's last letter
AddStartByEnd(sld, word) ==
  LET end_letter == word[Len(word)] IN
  IF end_letter \in DOMAIN sld
  THEN [sld EXCEPT ![end_letter] = Append(@, word)]
  ELSE [c \in (DOMAIN sld) \cup {end_letter} |->
          IF c = end_letter THEN <<word>> ELSE sld[c]]

\* the insertion into start_letter_dictionary
AddStart(sld, word) ==
  LET start_letter == word[1] IN
  IF start_letter \in DOMAIN sld
  THEN [sld EXCEPT ![start_letter] = Append(@, word)]
  ELSE [c \in (DOMAIN sld) \cup {start_letter} |->
          IF c = start_letter THEN <<word>> ELSE sld[c]]

(***************************************************************************)
(* State, its ordering, and the BinaryHeap holding it                      *)
(***************************************************************************)
\* LetterBoxedSolver::heuristic
heuristic(chain, chars) == Cardinality(chars \ ChainChars(chain))

MkState(chain, last_word, last_char, cost, h) ==
  [chain |-> chain, last_word |-> last_word, last_char |-> last_char,
   cost |-> cost, heuristic |-> h]

Key(s) == s.cost + s.heuristic

\* mutant of StateLe: the comparison is not inverted, self's key is compared
\* with other's
StateLeNotInverted(a, b) == Key(a) <= Key(b)

\* a <= b in impl Ord for State: cmp compares other's key with self's
StateLe(a, b) == Key(b) <= Key(a)

\* BinaryHeap::sift_up: the hole at 0-based pos climbs while elt > parent
RECURSIVE SiftUp(_, _, _)
SiftUp(data, hole, elt) ==
  IF hole > 0
  THEN LET parent == (hole - 1) \div 2 IN
       IF StateLe(elt, data[parent + 1])
       THEN [data EXCEPT ![hole + 1] = elt]
       ELSE SiftUp([data EXCEPT ![hole + 1] = data[parent + 1]], parent, elt)
  ELSE [data EXCEPT ![hole + 1] = elt]

\* BinaryHeap::push
HeapPush(data, item) == SiftUp(Append(data, item), Len(data), item)

\* BinaryHeap::sift_down_to_bottom: the hole descends to a leaf along the
\* greater children, then the element climbs back
RECURSIVE SiftDownToBottom(_, _, _)
SiftDownToBottom(data, hole, elt) ==
  LET end == Len(data)
      child == 2 * hole + 1
  IN IF child + 2 <= end
     THEN LET c == IF StateLe(data[child + 1], data[child + 2])
                   THEN child + 1 ELSE child
          IN SiftDownToBottom([data EXCEPT ![hole + 1] = data[c + 1]], c, elt)
     ELSE IF child + 1 = end
     THEN SiftUp([data EXCEPT ![hole + 1] = data[child + 1]], child, elt)
     ELSE SiftUp(data, hole, elt)

\* BinaryHeap::pop on a non-empty heap: the state returned
HeapTop(data) == data[1]

\* BinaryHeap::pop on a non-empty heap: the heap left
HeapRest(data) ==
  IF Len(data) = 1 THEN <<>>
  ELSE SiftDownToBottom(SubSeq(data, 1, Len(data) - 1), 0, data[Len(data)])

(***************************************************************************)
(* LetterBoxedSolver::a_star, the loops over words                         *)
(***************************************************************************)
\* the seeding loop over self.dictionary
RECURSIVE SeedQueue(_, _, _, _)
SeedQueue(queue, words, ignore, chars) ==
  IF words = <<>> THEN queue
  ELSE LET word == Head(words)
           q == IF Contains(ignore, word) THEN queue
                ELSE HeapPush(queue, MkState(<<word>>, word, word[Len(word)],
                                             1, heuristic(<<word>>, chars)))
       IN SeedQueue(q, Tail(words), ignore, chars)

\* mutant of NextState: the cost of the popped state is copied
NextStateSameCost(state, next_word, chars) ==
  LET new_chain == Append(state.chain, next_word) IN
  MkState(new_chain, next_word, next_word[Len(next_word)],
          state.cost, heuristic(new_chain, chars))

\* the State pushed for next_word
NextState(state, next_word, chars) ==
  LET new_chain == Append(state.chain, next_word) IN
  MkState(new_chain, next_word, next_word[Len(next_word)],
          state.cost + 1, heuristic(new_chain, chars))

\* mutant of SkipNextWord: the ignore list is not consulted
SkipNextWordChainOnly(state, next_word, ignore) ==
  Contains(state.chain, next_word)

\* mutant of SkipNextWord: the chain is not consulted
SkipNextWordIgnoreOnly(state, next_word, ignore) ==
  Contains(ignore, next_word)

\* the two continue conditions of the loop over next_words
SkipNextWord(state, next_word, ignore) ==
  Contains(state.chain, next_word) \/ Contains(ignore, next_word)

\* the loop over next_words
RECURSIVE PushNextWords(_, _, _, _, _)
PushNextWords(queue, state, next_words, ignore, chars) ==
  IF next_words = <<>> THEN queue
  ELSE LET next_word == Head(next_words)
           q == IF SkipNextWord(state, next_word, ignore) THEN queue
                ELSE HeapPush(queue, NextState(state, next_word, chars))
       IN PushNextWords(q, state, Tail(next_words), ignore, chars)

\* mutant of Expand: the bucket of the last word's first letter is used
ExpandFromStart(queue, state, graph, ignore, chars) ==
  IF state.last_word[1] \in DOMAIN graph
  THEN PushNextWords(queue, state, graph[state.last_word[1]], ignore, chars)
  ELSE queue

\* if let Some(next_words) = graph.get(&state.last_char) { ... }
Expand(queue, state, graph, ignore, chars) ==
  IF state.last_char \in DOMAIN graph
  THEN PushNextWords(queue, state, graph[state.last_char], ignore, chars)
  ELSE queue

\* word.chars().last().unwrap() of a word that is not ignored finds no char
UnwrapFails(word, ignore) == ~Contains(ignore, word) /\ Len(word) = 0

\* mutant of TooLong: no popped state is too long
TooLongNever(state, max_solution_length) == FALSE

\* mutant of TooLong: only chains too long by more than one are skipped
TooLongByTwo(state, max_solution_length) ==
  Len(state.chain) > max_solution_length + 1

\* the test that skips a popped state
TooLong(state, max_solution_length) == Len(state.chain) > max_solution_length

\* mutant of IsGoal: one missing letter is let through
IsGoalOffByOne(state) == state.heuristic <= 1

\* the test that records a popped state as a solution
IsGoal(state) == state.heuristic = 0

\* mutant of ReturnNow: the first solution is returned at every level
ReturnNowFirst(max_solution_length, sols) == TRUE

\* mutant of ReturnNow: the return waits for one solution more
ReturnNowLate(max_solution_length, sols) ==
  max_solution_length > 3 \/ Len(sols) > return_after

\* mutant of NextLevel: the level does not advance
NextLevelStuck(level) == level

\* for l in 1..=6: the value of l in the next turn
NextLevel(level) == level + 1

\* the test that returns from inside the drain
ReturnNow(max_solution_length, sols) ==
  max_solution_length > 3 \/ Len(sols) >= return_after

(***************************************************************************)
(* Inputs                                                                  *)
(***************************************************************************)
Box12 == << <<1, 2, 3>>, <<4, 5, 6>>, <<7, 8, 9>>, <<10, 11, 12>> >>
BoxDup == << <<1, 2, 3>>, <<4, 5, 6>>, <<3, 1, 2>>, <<6, 5, 4>> >>
BoxShared == << <<1, 2, 3>>, <<3, 4, 5>>, <<5, 6, 1>>, <<2, 4, 6>> >>
BoxFive == << <<1, 1, 1>>, <<2, 3, 2>>, <<4, 5, 4>>, <<1, 1, 1>> >>

\* lines of the word source: "adb", "bec", "cfa", "ada", "abd", "adbe"
Candidates ==
  { <<1, 4, 2>>, <<2, 5, 3>>, <<3, 6, 1>>, <<1, 4, 1>>, <<1, 2, 4>>,
    <<1, 4, 2, 5>> }

\* a word source with a line for each filter: "ad", "adx", "adbecfadbecfa",
\* "adbecfadbecf", "abd", "ada", "adb"
MixedLines ==
  << <<1, 4>>, <<1, 4, 24>>, <<1, 4, 2, 5, 3, 6, 1, 4, 2, 5, 3, 6, 1>>,
     <<1, 4, 2, 5, 3, 6, 1, 4, 2, 5, 3, 6>>, <<1, 2, 4>>, <<1, 4, 1>>,
     <<1, 4, 2>> >>

Sources == UNION {[1..n -> Candidates] : n \in 0..MaxLines}

IgnoreLists == { <<>>, << <<1, 4, 2>> >> }

Input(g, s, i) == [groups |-> g, source |-> s, ignore |-> i]

Enumerated ==
  {Input(Box12, s, <<>>) : s \in Sources}
    \cup {Input(BoxDup, s, i) : s \in Sources, i \in IgnoreLists}

Scenarios ==
  { \* every filter of the builder, on a box of 12 letters and on one of 6
    Input(Box12, MixedLines, <<>>),
    Input(BoxDup, MixedLines, <<>>),
    \* a single word covers the box
    Input(BoxDup, << <<1, 4, 2>>, <<1, 4, 2, 5, 3, 6>> >>, <<>>),
    \* two words that each cover the box, one of them ending in the first
    \* letter of a third word
    Input(BoxDup, << <<1, 4, 2, 5, 3, 6, 1>>, <<1, 4, 2>>,
                     <<2, 5, 3, 6, 1, 4>> >>, <<>>),
    \* two two-word covers, each way round
    Input(BoxDup, << <<1, 4, 2, 5>>, <<5, 3, 6, 1>> >>, <<>>),
    \* four words that all link and are all needed
    Input(BoxFive, << <<1, 2, 1>>, <<1, 3, 1>>, <<1, 4, 1>>, <<1, 5, 1>> >>,
          <<>>),
    \* a five-word line
    Input(Box12, << <<6, 9, 12>>, <<1, 4, 7, 10>>, <<10, 2, 5>>, <<5, 8, 3>>,
                    <<3, 11, 6>> >>, <<>>),
    \* a six-word line, and the same with its fourth word ignored
    Input(Box12, << <<1, 4, 7>>, <<7, 2, 5>>, <<5, 8, 3>>, <<3, 10, 6>>,
                    <<6, 9, 11>>, <<11, 1, 12>> >>, <<>>),
    Input(Box12, << <<1, 4, 7>>, <<7, 2, 5>>, <<5, 8, 3>>, <<3, 10, 6>>,
                    <<6, 9, 11>>, <<11, 1, 12>> >>, << <<3, 10, 6>> >>),
    \* a group of two letters, a group of four letters
    Input(<< <<1, 2, 3>>, <<4, 5>>, <<7, 8, 9>>, <<10, 11, 12>> >>,
          << <<1, 4, 7>> >>, <<>>),
    Input(<< <<1, 2, 3>>, <<4, 5, 6>>, <<7, 8, 9>>, <<10, 11, 12, 1>> >>,
          << <<1, 4, 7>> >>, <<>>) }

Inputs == Enumerated \cup Scenarios

(***************************************************************************)
(* The program                                                             *)
(***************************************************************************)
EmptyMap == [c \in {} |-> <<>>]

Init ==
  \E inp \in Inputs :
    /\ pc = "new"
    /\ string_groups = inp.groups
    /\ source = inp.source
    /\ ignore_words = inp.ignore
    /\ pos = 0
    /\ letter_groups = <<>>
    /\ available_chars = {}
    /\ dictionary = <<>>
    /\ start_letter_dictionary = EmptyMap
    /\ is_letter_box_word = FALSE
    /\ priority_queue = <<>>
    /\ visited = <<>>
    /\ solutions = <<>>
    /\ l = 0
    /\ result = <<>>

\* new: the loop over string_groups, which panics at a group whose length
\* is not 3
NewGroups ==
  /\ pc = "new"
  /\ IF BadGroup(string_groups)
     THEN /\ pc' = "panic"
          /\ UNCHANGED <<letter_groups, available_chars>>
     ELSE /\ pc' = "lines"
          /\ letter_groups' =
               [i \in 1..Len(string_groups) |-> SortChars(string_groups[i])]
          /\ available_chars' =
               UNION {CharSet(string_groups[i]) : i \in 1..Len(string_groups)}
  /\ UNCHANGED <<string_groups, source, pos, ignore_words, dictionary,
                 start_letter_dictionary, is_letter_box_word, priority_queue,
                 visited, solutions, l, result>>

\* new: one turn of the loop over the lines
ReadLine ==
  /\ pc = "lines"
  /\ pos < Len(source)
  /\ LET word == source[pos + 1] IN
     /\ pos' = pos + 1
     /\ is_letter_box_word' =
          IF LengthOk(word) /\ DuplicateOk(available_chars, word)
             /\ DiffOk(available_chars, word)
          THEN is_letter_pattern_in_letter_box(letter_groups, word)
          ELSE is_letter_box_word
     /\ IF Accepts(letter_groups, available_chars, word)
        THEN /\ dictionary' = Append(dictionary, word)
             /\ start_letter_dictionary' = AddStart(start_letter_dictionary, word)
        ELSE UNCHANGED <<dictionary, start_letter_dictionary>>
  /\ UNCHANGED <<pc, string_groups, source, ignore_words, letter_groups,
                 available_chars, priority_queue, visited, solutions, l, result>>

\* new: after the last line, the sort of the dictionary and the return
SortDictionary ==
  /\ pc = "lines"
  /\ pos = Len(source)
  /\ dictionary' = SortByLenDesc(dictionary)
  /\ pc' = "run_solver"
  /\ UNCHANGED <<string_groups, source, pos, ignore_words, letter_groups,
                 available_chars, start_letter_dictionary, is_letter_box_word,
                 priority_queue, visited, solutions, l, result>>

\* a_star up to the first turn of the outer loop: the seeding, which
\* unwraps the last char of every word it seeds
AStarSeed ==
  /\ pc = "run_solver"
  /\ IF \E i \in 1..Len(dictionary) : UnwrapFails(dictionary[i], ignore_words)
     THEN /\ pc' = "unwrap_none"
          /\ UNCHANGED <<priority_queue, l>>
     ELSE /\ pc' = "drain"
          /\ priority_queue' =
               SeedQueue(<<>>, dictionary, ignore_words, available_chars)
          /\ l' = FirstLevel
  /\ visited' = <<>>
  /\ solutions' = <<>>
  /\ UNCHANGED <<string_groups, source, pos, ignore_words, letter_groups,
                 available_chars, dictionary, start_letter_dictionary,
                 is_letter_box_word, result>>

\* mutant of PopSkip: the too long state is dropped before it is recorded in
\* visited
PopSkipForgets ==
  /\ pc = "drain"
  /\ priority_queue # <<>>
  /\ LET state == HeapTop(priority_queue) IN
     /\ TooLong(state, l)
     /\ visited' = visited
     /\ priority_queue' = HeapRest(priority_queue)
  /\ UNCHANGED <<pc, string_groups, source, pos, ignore_words, letter_groups,
                 available_chars, dictionary, start_letter_dictionary,
                 is_letter_box_word, solutions, l, result>>

\* one turn of the drain: the popped state is too long
PopSkip ==
  /\ pc = "drain"
  /\ priority_queue # <<>>
  /\ LET state == HeapTop(priority_queue) IN
     /\ TooLong(state, l)
     /\ visited' = HeapPush(visited, state)
     /\ priority_queue' = HeapRest(priority_queue)
  /\ UNCHANGED <<pc, string_groups, source, pos, ignore_words, letter_groups,
                 available_chars, dictionary, start_letter_dictionary,
                 is_letter_box_word, solutions, l, result>>

\* one turn of the drain: the popped state is a goal and a_star returns
PopReturn ==
  /\ pc = "drain"
  /\ priority_queue # <<>>
  /\ LET state == HeapTop(priority_queue) IN
     /\ ~TooLong(state, l)
     /\ IsGoal(state)
     /\ ReturnNow(l, Append(solutions, state.chain))
     /\ visited' = HeapPush(visited, state)
     /\ priority_queue' = HeapRest(priority_queue)
     /\ solutions' = Append(solutions, state.chain)
     /\ result' = Append(solutions, state.chain)
     /\ pc' = "done"
  /\ UNCHANGED <<string_groups, source, pos, ignore_words, letter_groups,
                 available_chars, dictionary, start_letter_dictionary,
                 is_letter_box_word, l>>

\* one turn of the drain: the popped state, recorded if it is a goal, is
\* expanded
PopExpand ==
  /\ pc = "drain"
  /\ priority_queue # <<>>
  /\ LET state == HeapTop(priority_queue)
         sols == IF IsGoal(state) THEN Append(solutions, state.chain)
                 ELSE solutions
     IN
     /\ ~TooLong(state, l)
     /\ ~(IsGoal(state) /\ ReturnNow(l, sols))
     /\ visited' = HeapPush(visited, state)
     /\ solutions' = sols
     /\ priority_queue' = Expand(HeapRest(priority_queue), state,
                                 start_letter_dictionary, ignore_words,
                                 available_chars)
  /\ UNCHANGED <<pc, string_groups, source, pos, ignore_words, letter_groups,
                 available_chars, dictionary, start_letter_dictionary,
                 is_letter_box_word, l, result>>

\* the frontier is empty and the level found solutions: break and return
LevelBreak ==
  /\ pc = "drain"
  /\ priority_queue = <<>>
  /\ Len(solutions) > 0
  /\ result' = solutions
  /\ pc' = "done"
  /\ UNCHANGED <<string_groups, source, pos, ignore_words, letter_groups,
                 available_chars, dictionary, start_letter_dictionary,
                 is_letter_box_word, priority_queue, visited, solutions, l>>

\* the frontier is empty and the level found nothing: the else branch
LevelFail ==
  /\ pc = "drain"
  /\ priority_queue = <<>>
  /\ Len(solutions) = 0
  /\ pc' = "restore"
  /\ UNCHANGED <<string_groups, source, pos, ignore_words, letter_groups,
                 available_chars, dictionary, start_letter_dictionary,
                 is_letter_box_word, priority_queue, visited, solutions, l,
                 result>>

\* one turn of: while let Some(state) = visited.pop() { priority_queue.push(state) }
RestoreStep ==
  /\ pc = "restore"
  /\ visited # <<>>
  /\ priority_queue' = HeapPush(priority_queue, HeapTop(visited))
  /\ visited' = HeapRest(visited)
  /\ UNCHANGED <<pc, string_groups, source, pos, ignore_words, letter_groups,
                 available_chars, dictionary, start_letter_dictionary,
                 is_letter_box_word, solutions, l, result>>

\* visited is empty: the next level starts with no solutions
LevelNext ==
  /\ pc = "restore"
  /\ visited = <<>>
  /\ l < LastLevel
  /\ solutions' = <<>>
  /\ l' = NextLevel(l)
  /\ pc' = "drain"
  /\ UNCHANGED <<string_groups, source, pos, ignore_words, letter_groups,
                 available_chars, dictionary, start_letter_dictionary,
                 is_letter_box_word, priority_queue, visited, result>>

\* visited is empty after the last level: the outer loop ends and a_star
\* returns the solutions, which run_solver unwraps and returns
LevelLast ==
  /\ pc = "restore"
  /\ visited = <<>>
  /\ l = LastLevel
  /\ result' = solutions
  /\ pc' = "done"
  /\ UNCHANGED <<string_groups, source, pos, ignore_words, letter_groups,
                 available_chars, dictionary, start_letter_dictionary,
                 is_letter_box_word, priority_queue, visited, solutions, l>>

Next ==
  \/ NewGroups
  \/ ReadLine
  \/ SortDictionary
  \/ AStarSeed
  \/ PopSkip
  \/ PopReturn
  \/ PopExpand
  \/ LevelBreak
  \/ LevelFail
  \/ RestoreStep
  \/ LevelNext
  \/ LevelLast

Spec == Init /\ [][Next]_vars

(***************************************************************************)
(* The adjacency check on its own                                          *)
(***************************************************************************)
CheckLetters == {1, 2, 3, 4, 5, 6}

CheckWords == UNION {[1..n -> CheckLetters] : n \in 2..MaxCheckLen}

CheckBoxes == {Box12, BoxDup, BoxShared}

InitValidator ==
  \E box \in CheckBoxes, word \in CheckWords :
    /\ pc = "validate"
    /\ string_groups = box
    /\ source = <<word>>
    /\ ignore_words = <<>>
    /\ pos = 0
    /\ letter_groups = [i \in 1..Len(box) |-> SortChars(box[i])]
    /\ available_chars = UNION {CharSet(box[i]) : i \in 1..Len(box)}
    /\ dictionary = <<>>
    /\ start_letter_dictionary = EmptyMap
    /\ is_letter_box_word = FALSE
    /\ priority_queue = <<>>
    /\ visited = <<>>
    /\ solutions = <<>>
    /\ l = 0
    /\ result = <<>>

\* one call of is_letter_pattern_in_letter_box
Validate ==
  /\ pc = "validate"
  /\ is_letter_box_word' =
       is_letter_pattern_in_letter_box(letter_groups, source[1])
  /\ pc' = "validated"
  /\ pos' = 1
  /\ UNCHANGED <<string_groups, source, ignore_words, letter_groups,
                 available_chars, dictionary, start_letter_dictionary,
                 priority_queue, visited, solutions, l, result>>

NextValidator == Validate

SpecValidator == InitValidator /\ [][NextValidator]_vars

\* the program has returned or panicked
Finished == pc \in {"done", "panic", "unwrap_none"}

(***************************************************************************)
(* What a solution is, stated without the search                           *)
(***************************************************************************)
\* the words the search may use
Usable ==
  {dictionary[i] : i \in 1..Len(dictionary)}
    \ {ignore_words[j] : j \in 1..Len(ignore_words)}

\* the last letter of each word is the first letter of the next
Linked(chain) ==
  \A i \in 1..(Len(chain) - 1) : chain[i][Len(chain[i])] = chain[i + 1][1]

\* no word occurs twice
Distinct(chain) ==
  \A i, j \in 1..Len(chain) : i # j => chain[i] # chain[j]

\* every letter of the box occurs in some word, and no other letter does
Covers(chain) ==
  /\ \A c \in available_chars :
        \E i \in 1..Len(chain) : \E k \in 1..Len(chain[i]) : chain[i][k] = c
  /\ \A i \in 1..Len(chain) : \A k \in 1..Len(chain[i]) :
        chain[i][k] \in available_chars

\* the linked chains of n distinct usable words
RECURSIVE ValidChains(_)
ValidChains(n) ==
  IF n = 1 THEN {<<w>> : w \in Usable}
  ELSE {x \in {Append(c, w) : c \in ValidChains(n - 1), w \in Usable} :
          Distinct(x) /\ Linked(x)}

\* a cover of exactly n words exists
CoverOf(n) == \E c \in ValidChains(n) : Covers(c)

\* the letters of the box as given
AllowedLetters ==
  {string_groups[g][k] : g \in 1..Len(string_groups), k \in 1..GroupLen}

\* some side of the box as given holds both letters
SameSide(a, b) ==
  \E g \in 1..Len(string_groups) :
     /\ \E k \in 1..Len(string_groups[g]) : string_groups[g][k] = a
     /\ \E k \in 1..Len(string_groups[g]) : string_groups[g][k] = b

\* the linear scan over the adjacent pairs of a word
LinearLegal(w) == \A i \in 1..(Len(w) - 1) : ~SameSide(w[i], w[i + 1])

\* the four conditions on a candidate line
WordIsAcceptable(w) ==
  /\ Len(w) >= 3 /\ Len(w) <= 12
  /\ Cardinality(AllowedLetters) = 12 =>
        \A i, j \in 1..Len(w) : i # j => w[i] # w[j]
  /\ \A i \in 1..Len(w) : w[i] \in AllowedLetters
  /\ LinearLegal(w)

\* the acceptable lines among the first n, in source order
AcceptedOf(n) == SelectSeq(SubSeq(source, 1, n), WordIsAcceptable)

\* new has just returned the solver, which the search does not change
Built == pc = "run_solver"

\* the bucket of a letter, empty when the map has no such key
Bucket(c) ==
  IF c \in DOMAIN start_letter_dictionary
  THEN start_letter_dictionary[c] ELSE <<>>

\* every chain the search holds or has returned
HeldChains ==
  {priority_queue[i].chain : i \in 1..Len(priority_queue)}
    \cup {visited[i].chain : i \in 1..Len(visited)}
    \cup {solutions[i] : i \in 1..Len(solutions)}
    \cup {result[i] : i \in 1..Len(result)}

(***************************************************************************)
(* Claims                                                                  *)
(***************************************************************************)
\* C1: every chain of the returned list covers the box: the letters of its
\* words are exactly the available chars.
C1_ReturnedChainsCover ==
  \A i \in 1..Len(result) : Covers(result[i])

C1_Witness ==
  /\ pc = "done"
  /\ Len(result) >= 2
  /\ \E i \in 1..Len(result) : Len(result[i]) >= 2

\* C2: when the search returns chains, they all have exactly l words, l is
\* the level the search stopped at, a cover of l words exists and no cover
\* of fewer words does.
C2_ShortestLevel ==
  (pc = "done" /\ result # <<>>) =>
     /\ \A i \in 1..Len(result) : Len(result[i]) = l
     /\ l \in FirstLevel..LastLevel
     /\ CoverOf(l)
     /\ \A n \in 1..(l - 1) : ~CoverOf(n)

C2_Witness ==
  /\ pc = "done"
  /\ result # <<>>
  /\ l = 5
  /\ Len(result[1]) = 5

\* C3: the search never fails an unwrap, and what it returns is empty
\* exactly when no cover of at most 6 words exists.
C3_EmptyIffNoCover ==
  /\ pc # "unwrap_none"
  /\ pc = "done" => (result = <<>> <=> \A n \in FirstLevel..LastLevel : ~CoverOf(n))

C3_Witness ==
  /\ pc = "done"
  /\ result = <<>>
  /\ Len(dictionary) >= 5
  /\ ignore_words # <<>>

\* C4: in every chain of the frontier, of the visited record and of the
\* solutions, the last letter of each word is the first letter of the next.
C4_ChainsLinked ==
  \A c \in HeldChains : Linked(c)

C4_Witness ==
  /\ \E i \in 1..Len(priority_queue) : Len(priority_queue[i].chain) >= 3
  /\ \E i \in 1..Len(visited) : Len(visited[i].chain) >= 3
  /\ \E i \in 1..Len(solutions) : Len(solutions[i]) >= 3

\* C5: no chain of the frontier, of the visited record or of the solutions
\* holds a word twice or holds an ignored word.
C5_ChainsDistinctNotIgnored ==
  \A c \in HeldChains :
     /\ Distinct(c)
     /\ \A i \in 1..Len(c) : ~Contains(ignore_words, c[i])

\* an expansion that met a word of its own chain and an ignored word
C5_Witness ==
  /\ pc = "drain"
  /\ \E i \in 1..Len(visited) :
       LET state == visited[i] IN
       /\ Len(state.chain) >= 2
       /\ state.last_char \in DOMAIN start_letter_dictionary
       /\ \E k \in 1..Len(start_letter_dictionary[state.last_char]) :
            Contains(state.chain, start_letter_dictionary[state.last_char][k])
       /\ \E k \in 1..Len(start_letter_dictionary[state.last_char]) :
            Contains(ignore_words, start_letter_dictionary[state.last_char][k])

RECURSIVE TurnsOf(_)
TurnsOf(n) ==
  IF n > l THEN 1 ELSE 1 + Len(dictionary) * TurnsOf(n + 1)

\* the frontier states of n words
FrontierOfLen(n) ==
  Cardinality({i \in 1..Len(priority_queue) : Len(priority_queue[i].chain) = n})

\* a bound on the turns the drain of this level still takes
RECURSIVE DrainTurns(_)
DrainTurns(n) ==
  IF n > l + 1 THEN 0
  ELSE FrontierOfLen(n) * TurnsOf(n) + DrainTurns(n + 1)

\* the stages of a run, counted down: new, the lines, run_solver, then the
\* drain and the restore of each level, then the return
Stage ==
  CASE pc = "new" -> 2 * LastLevel + 3
    [] pc = "lines" -> 2 * LastLevel + 2
    [] pc = "run_solver" -> 2 * LastLevel + 1
    [] pc = "drain" -> 2 * (LastLevel - l) + 2
    [] pc = "restore" -> 2 * (LastLevel - l) + 1
    [] OTHER -> 0

\* the turns left in the loop of the current stage
TurnsLeft ==
  CASE pc = "lines" -> Len(source) - pos
    [] pc = "drain" -> DrainTurns(1)
    [] pc = "restore" -> Len(visited)
    [] OTHER -> 0

\* some action's guard holds: the program is not stuck
CanStep ==
  \/ pc \in {"new", "run_solver"}
  \/ pc = "lines" /\ pos <= Len(source)
  \/ pc = "drain" /\ l \in FirstLevel..LastLevel
  \/ pc = "restore" /\ l \in FirstLevel..LastLevel

\* a step moves to a later stage or uses up a turn of its stage's loop
StepDescends ==
  \/ Stage' < Stage
  \/ Stage' = Stage /\ TurnsLeft' < TurnsLeft

\* C7: the search terminates.  The level stays within 1..6 while the search
\* runs, a run that has not returned is never stuck, and every step either
\* moves to a later stage (there are two per level, the drain and the
\* restore) or uses up one of the finitely many turns left in the loop of
\* its stage: a drain's turns are bounded because chains longer than the
\* level are not expanded and an expansion pushes at most one chain per
\* dictionary word.
C7_Terminates ==
  /\ [](Finished \/ CanStep)
  /\ [][StepDescends]_vars


\* a run that went through all six levels, skipping chains that were too long
C7_Witness ==
  /\ pc = "done"
  /\ l = LastLevel
  /\ result = <<>>
  /\ \E i \in 1..Len(priority_queue) : Len(priority_queue[i].chain) >= 3

\* C8: the builder accepts a line exactly when its length is within 3..12,
\* it repeats no letter if the box has 12 distinct letters, all its letters
\* are letters of the box and no adjacent pair lies on one side: while the
\* lines are read the dictionary is the acceptable lines read so far, and
\* afterwards it holds the same words as often.
C8_AcceptsExactly ==
  /\ pc = "lines" => dictionary = AcceptedOf(pos)
  /\ Built =>
       /\ Len(dictionary) = Len(AcceptedOf(Len(source)))
       /\ \A w \in {source[i] : i \in 1..Len(source)} :
            Cardinality({i \in 1..Len(dictionary) : dictionary[i] = w})
              = Cardinality({i \in 1..Len(source) :
                               source[i] = w /\ WordIsAcceptable(w)})

C8_Witness ==
  /\ pc = "lines"
  /\ pos = Len(source)
  /\ pos >= 3
  /\ Len(dictionary) = 1
  /\ Cardinality(available_chars) = 12

\* C9: the recursive adjacency check returns true exactly when the linear
\* scan finds no adjacent pair of the word's letters on one side of the box,
\* for words of 2 letters and more and boxes whose sides share letters.
C9_RecursiveIsLinear ==
  pc = "validated" => (is_letter_box_word <=> LinearLegal(source[1]))

\* a word whose only illegal pair is its last, on a box whose sides share
\* letters
C9_Witness ==
  /\ pc = "validated"
  /\ string_groups = BoxShared
  /\ Len(source[1]) = 4
  /\ ~is_letter_box_word
  /\ LinearLegal(SubSeq(source[1], 1, 3))

OfLength(s, n) == LET HasN(w) == Len(w) = n IN SelectSeq(s, HasN)

\* C11: after construction the dictionary is a permutation of the accepted
\* words, ordered by non-increasing length, and the words of one length keep
\* the order in which the word source gave them.
C11_DictionaryStableByLength ==
  Built =>
    /\ Len(dictionary) = Len(AcceptedOf(Len(source)))
    /\ \A i \in 1..(Len(dictionary) - 1) :
         Len(dictionary[i]) >= Len(dictionary[i + 1])
    /\ \A n \in MinWordLen..MaxWordLen :
         OfLength(dictionary, n) = OfLength(AcceptedOf(Len(source)), n)

\* two different words of one length, then a longer one that the sort moves
\* in front of them
C11_Witness ==
  /\ Built
  /\ Len(source) = 3 /\ Len(dictionary) = 3
  /\ Len(source[1]) = Len(source[2]) /\ source[1] # source[2]
  /\ Len(source[3]) > Len(source[1])
  /\ dictionary = <<source[3], source[1], source[2]>>

\* C12: when one of the groups does not have exactly three characters,
\* construction aborts before any line of the word source is read: there is
\* no dictionary, no start index, no solver and no search.
C12_BadGroupAbortsFirst ==
  (\E g \in {string_groups[i] : i \in DOMAIN string_groups} : Len(g) # 3) =>
    /\ pc \in {"new", "panic"}
    /\ pos = 0
    /\ dictionary = <<>>
    /\ DOMAIN start_letter_dictionary = {}
    /\ priority_queue = <<>> /\ visited = <<>>
    /\ solutions = <<>> /\ result = <<>>
    /\ l = 0

\* the abort on a group of four letters, with a line waiting in the source
C12_Witness ==
  /\ pc = "panic"
  /\ \E i \in 1..Len(string_groups) : Len(string_groups[i]) > GroupLen
  /\ Len(source) > 0
  /\ pos = 0

\* the lines of the word source are all different, so that the dictionary
\* holds no word twice
SourceDistinct == \A i, j \in 1..Len(source) : i # j => source[i] # source[j]

\* C13: the list the search returns contains no chain twice, at whatever
\* level it returns, the levels that start from restored states included
\* (stated for a dictionary that holds no word twice).
C13_NoChainReturnedTwice ==
  (pc = "done" /\ SourceDistinct) =>
    \A i, j \in 1..Len(result) : i # j => result[i] # result[j]

\* C14: a chain that was expanded at one level is not expanded again at a
\* later level, so the same chain is never pushed onto the frontier more
\* than once: the frontier and the visited record together never hold two
\* states of one chain (stated for a dictionary that holds no word twice).
C14_NoChainPushedTwice ==
  SourceDistinct =>
    Cardinality({priority_queue[i].chain : i \in 1..Len(priority_queue)}
                  \cup {visited[i].chain : i \in 1..Len(visited)})
      = Len(priority_queue) + Len(visited)

\* how many entries of a sequence of states are the state x
CountOf(seq, x) == Cardinality({i \in 1..Len(seq) : seq[i] = x})

\* the states of a sequence of states
StatesOf(seq) == {seq[i] : i \in 1..Len(seq)}

\* the words a state can be continued with: those of the bucket of its last
\* letter that are neither in its chain nor ignored
Continuations(state) ==
  {i \in 1..Len(Bucket(state.last_char)) :
     LET w == Bucket(state.last_char)[i] IN
     /\ \A k \in 1..Len(state.chain) : state.chain[k] # w
     /\ \A k \in 1..Len(ignore_words) : ignore_words[k] # w}

\* one step of the search before it returns: no held state is lost, a pop
\* moves the popped state from the frontier to visited, the states a pop
\* adds are all kept, and a new level starts with visited empty
KeepsStates ==
  (pc \in {"drain", "restore"} /\ pc' \in {"drain", "restore"}) =>
    /\ \A x \in StatesOf(priority_queue) \cup StatesOf(visited) :
         CountOf(priority_queue', x) + CountOf(visited', x)
           >= CountOf(priority_queue, x) + CountOf(visited, x)
    /\ (pc = "drain" /\ pc' = "drain" /\ priority_queue # <<>>) =>
         LET state == priority_queue[1]
             added == IF Len(state.chain) > l THEN 0
                      ELSE Cardinality(Continuations(state))
         IN
         /\ CountOf(visited', state) = CountOf(visited, state) + 1
         /\ CountOf(priority_queue', state)
              = CountOf(priority_queue, state) - 1
         /\ Len(priority_queue') = Len(priority_queue) - 1 + added
         /\ Len(visited') = Len(visited) + 1
    /\ pc = "restore" =>
         Len(priority_queue') + Len(visited')
           = Len(priority_queue) + Len(visited)
    /\ (pc = "restore" /\ pc' = "drain") =>
         visited = <<>> /\ visited' = <<>>

\* C15: no generated state is lost before the search returns: every state
\* that was pushed is in the frontier or in visited, a pop moves it from the
\* frontier to visited, and after a level without solution visited is empty
\* and the frontier holds every state generated so far.
C15_NoStateLost == [][KeepsStates]_vars

\* the third level starts: visited is empty, the frontier holds the states
\* of the first two levels
C15_Witness ==
  /\ pc = "drain" /\ l = 3
  /\ visited = <<>>
  /\ Len(priority_queue) >= 5
  /\ \E i, j \in 1..Len(priority_queue) :
       Len(priority_queue[i].chain) = 1 /\ Len(priority_queue[j].chain) = 3

\* the states the search holds, in the frontier or in visited
HeldStates == StatesOf(priority_queue) \cup StatesOf(visited)

\* a pop of a state whose chain has more words than the level allows records
\* no solution and pushes nothing
SkipsTooLong ==
  (pc = "drain" /\ priority_queue # <<>>
     /\ Len(priority_queue[1].chain) > l) =>
    /\ solutions' = solutions
    /\ Len(priority_queue') = Len(priority_queue) - 1
    /\ pc' = "drain"

ExpandsOnlyNonGoals ==
  (pc = "drain" /\ priority_queue # <<>>) =>
    LET state == priority_queue[1] IN
    /\ (state.heuristic = 0 /\ Len(state.chain) <= l) =>
         /\ solutions' = Append(solutions, state.chain)
         /\ Len(priority_queue') = Len(priority_queue) - 1
    /\ Len(priority_queue') >= Len(priority_queue) =>
         state.heuristic > 0 /\ Len(state.chain) <= l

\* C17: a popped state is expanded only when it is not a goal: a state with
\* heuristic 0 is recorded as a solution and no successor of it is ever
\* pushed; only states with heuristic above 0, and of at most L words, are
\* expanded.
C17_GoalsNotExpanded == [][ExpandsOnlyNonGoals]_vars

\* C18: the frontier is drained smallest first: the state a pop takes has a
\* cost + heuristic no greater than that of any state left in the frontier,
\* at the first level and after visited states have been restored.
C18_PopsSmallestFirst ==
  (pc = "drain" /\ priority_queue # <<>>) =>
    LET state == HeapTop(priority_queue) IN
    \A i \in 1..Len(priority_queue) :
       state.cost + state.heuristic
         <= priority_queue[i].cost + priority_queue[i].heuristic

\* at level 2, after the restore, a chain of two words is the next to pop
\* while a chain of one word with a greater sum stays behind
C18_Witness ==
  /\ pc = "drain" /\ l = 2
  /\ Len(priority_queue) >= 3
  /\ priority_queue[1].cost = 2
  /\ \E i \in 1..Len(priority_queue) :
       /\ priority_queue[i].cost = 1
       /\ priority_queue[i].cost + priority_queue[i].heuristic
            > priority_queue[1].cost + priority_queue[1].heuristic

\* the letters of the box that no word of the chain has
MissingLetters(chain) ==
  {c \in AllowedLetters :
     \A k \in 1..Len(chain) : \A p \in 1..Len(chain[k]) : chain[k][p] # c}

\* C19: every state of the frontier and of visited has a cost equal to the
\* number of words of its chain (1 for a seed, one more for each expansion),
\* a heuristic equal to the number of letters of the box that its chain
\* lacks, between 0 and the number of letters of the box, and a last_char
\* that is the last letter of the last word of its chain.
C19_DerivedFieldsConsistent ==
  \A s \in HeldStates :
     /\ Len(s.chain) >= 1
     /\ s.cost = Len(s.chain)
     /\ s.heuristic = Cardinality(MissingLetters(s.chain))
     /\ s.heuristic \in 0..Cardinality(AllowedLetters)
     /\ s.last_word = s.chain[Len(s.chain)]
     /\ s.last_char = s.last_word[Len(s.last_word)]

\* a seed and chains of two and of three words are held, one of them with
\* no letter missing and one with letters missing
C19_Witness ==
  /\ pc = "drain"
  /\ \E s \in HeldStates : s.cost = 1 /\ s.heuristic > 0
  /\ \E s \in HeldStates : s.cost = 2
  /\ \E s \in HeldStates : s.cost = 3 /\ s.heuristic = 0

\* C20: when the search returns fewer than 4 chains from a level L <= 3,
\* the frontier having emptied before a fourth goal, the returned list is
\* complete for the level: every linked chain of exactly L distinct usable
\* words that covers the box is in it.
C20_ShortListIsComplete ==
  (pc = "done" /\ l <= 3 /\ Len(result) < return_after) =>
    \A c \in ValidChains(l) :
       Covers(c) => \E i \in 1..Len(result) : result[i] = c

\* two different words that each cover the box are returned from level 1
C20_Witness ==
  /\ pc = "done" /\ l = 1
  /\ Len(result) = 2
  /\ result[1] # result[2]
  /\ priority_queue = <<>>
  /\ Len(dictionary) = 3

====
